---- MODULE Spec2Model ----
(***************************************************************************)
(* The tgres receiver pipeline: director(), its elastic relays, the        *)
(* loader worker and the local-or-forward decision.                        *)
(*                                                                         *)
(* Pointers are modelled as indices: an *incomingDP is its index in pts,   *)
(* a *cachedDs is its ident (the dsCache holds one handle per ident).      *)
(* The loader and the director touch the same *cachedDs without a lock;    *)
(* the director's reads of cds.Id() therefore interleave with the loader's *)
(* write in LoaderFetch, and both outcomes of the racing read (0 or the    *)
(* new id) are reachable.                                                  *)
(***************************************************************************)
EXTENDS Naturals, Sequences, FiniteSets, TLC

\* ---------------------------------------------------------------- bounds
MaxPoints == 2      \* points, rcv messages and unknown items over a run
MaxFail == 1        \* storage errors (fetchOrCreate or flush) over a run
MaxChanges == 1     \* cluster change notifications over a run
MaxSignals == 1     \* nil (shutdown) items sent on dpCh over a run
MaxUnknown == 1     \* items of an unknown type sent on dpCh over a run
MaxCycle == 6       \* CycleSpec: points sent on dpCh over a run
ChanCap == 1        \* CycleSpec: capacity of dpOutCh and loaderCh (128, scaled)

\* ------------------------------------------------------ program constants
maxHops == 2
FlushThreshold == 0

\* ----------------------------------------------------------------- inputs
Routable == {"a"}            \* idents some DSSpec matches
NoSpec == {"u"}              \* idents no DSSpec matches
Idents == Routable \cup NoSpec
NaN == "NaN"
Num == "Num"
Values == {Num, NaN}
LocalNode == "L"
Remote == {"R1", "R2"}
\* the cluster views tried: what NodesForDistDatum returns (o) and the remote
\* nodes that are Ready (r)
Views == {[o |-> << >>, r |-> {}],
          [o |-> <<"L">>, r |-> {}],
          [o |-> <<"R1">>, r |-> {"R1"}],
          [o |-> <<"R1">>, r |-> {}],
          [o |-> <<"R1", "R2">>, r |-> {"R1", "R2"}],
          [o |-> <<"L", "R1">>, r |-> {"R1"}]}
NoView == [o |-> << >>, r |-> {}]
\* the points producers submit
Kinds == {<<"a", Num>>, <<"a", NaN>>, <<"u", Num>>}

VARIABLES
    clstr,          \* TRUE iff director() was given a non-nil clusterer
    owners,         \* what clstr.NodesForDistDatum returns now
    ready,          \* the remote nodes for which node.Ready() holds now
    changes,        \* cluster change notifications taken so far
    pts,            \* heap of incomingDP objects: index -> [Ident, Value, Hops],
                    \* with In, the Hops the object had when it entered dpCh
    dropsRcv,       \* the messages the rcv worker has dropped
    rcvWorker,      \* directorincomingDPMessages: "run" | "stopped"
    queue,          \* sent on dpCh, not yet received by the director loop:
                    \* the director's fifoQueue followed by dpOutCh's buffer
    loadQueue,      \* sent on loaderCh, not yet received by the loader loop:
                    \* loaderCh's buffer followed by the loader's fifoQueue
    closed,         \* which channels have been closed
    signals,        \* nil items sent on dpCh so far
    unknowns,       \* items of an unknown type sent on dpCh so far
    dpOutCh,        \* CycleSpec: buffer of dpOutCh
    loaderCh,       \* CycleSpec: buffer of loaderCh
    dirFifo,        \* CycleSpec: fifoQueue of the relay dpCh -> dpOutCh
    ldFifo,         \* CycleSpec: fifoQueue of the relay loaderCh -> loaderOutCh
    dirAt,          \* CycleSpec: director at "select" or at "send" (loaderCh <- cds)
    ldAt,           \* CycleSpec: loader at "recv" or at "send" (dpCh <- cds)
    submitted,      \* CycleSpec: points sent on dpCh so far
    dirPC,          \* director loop: "run" | "returned" | "panic"
    ldPC,           \* loader loop: "recv" | "fetch" | "exited"
    ldCds,          \* the handle the loader holds
    dsc,            \* dsCache: ident -> cachedDs fields
    db,             \* persistence: the idents that have a record
    dbCreates,      \* ident -> records ever created for it
    fails,          \* storage errors so far
    flushing,       \* flush requests handed to the flusher and not yet written
    loadErrs,       \* ident -> fetchOrCreate errors so far
    loaderSends,    \* ident -> times the handle was sent on loaderCh
    stats,          \* statReporter counters
    log             \* applied points and sent messages, in order of occurrence

vars == <<clstr, owners, ready, changes, pts, dropsRcv, rcvWorker, queue,
          loadQueue, closed, signals, unknowns, dirPC, ldPC, ldCds, dsc, db, dbCreates,
          fails, flushing, loadErrs, loaderSends, stats, log, dpOutCh, loaderCh,
          dirFifo, ldFifo, dirAt, ldAt, submitted>>

\* what the clusterer holds, what the producers hold, what the loader holds
clusterVars == <<clstr, owners, ready, changes>>
cycleVars == <<dpOutCh, loaderCh, dirFifo, ldFifo, dirAt, ldAt, submitted>>
mainVars == <<clstr, owners, ready, changes, pts, dropsRcv, rcvWorker, queue,
              loadQueue, closed, signals, unknowns, dirPC, ldPC, ldCds, dsc, db,
              dbCreates, fails, flushing, loadErrs, loaderSends, stats, log>>
producerVars == <<dropsRcv, rcvWorker, signals, unknowns>>
loaderVars == <<ldPC, ldCds, db, dbCreates, loadErrs>>

\* ------------------------------------------------------------ queue items
DpItem(p) == [t |-> "dp", dp |-> p, ident |-> ""]
CdsItem(i) == [t |-> "cds", dp |-> 0, ident |-> i]
NilItem == [t |-> "nil", dp |-> 0, ident |-> ""]
UnknownItem == [t |-> "unknown", dp |-> 0, ident |-> ""]

\* ---------------------------------------------------------------- dsCache
EmptyCds == [present |-> FALSE, Id |-> 0, spec |-> FALSE, incoming |-> << >>,
             created |-> FALSE, PointCount |-> 0]

\* persistence id of the record of an ident (never the 0 sentinel)
RecordId(i) == 1

\* dsCache.getByIdentOrCreateEmpty: the cache after the call; the handle is
\* nil iff the ident is still absent afterwards
getByIdentOrCreateEmpty(cache, i) ==
    IF cache[i].present THEN cache
    ELSE IF i \in Routable
         THEN [cache EXCEPT ![i] = [EmptyCds EXCEPT !.present = TRUE, !.spec = TRUE]]
         ELSE cache

\* cachedDs.appendIncoming
appendIncoming(c, p) == [c EXCEPT !.incoming = Append(@, p)]

\* dsCache.fetchOrCreateByIdent on success: the handle gets the record,
\* created is set iff the record was created by this call, spec becomes nil
fetchOrCreateByIdent(c, i, existed) ==
    [c EXCEPT !.Id = RecordId(i), !.created = ~existed, !.spec = FALSE]

\* ------------------------------------------------------------- statistics
ZeroStats == [total |-> 0, dropped |-> 0, accepted |-> 0, forwarded |-> 0,
              created |-> 0, forwarded_to |-> [n \in Remote |-> 0]]

\* reportStatCount("receiver.datapoints.total", 1)
reportTotal(s) == [s EXCEPT !.total = @ + 1]

\* reportStatCount("receiver.datapoints.dropped", 1)
reportDropped(s) == [s EXCEPT !.dropped = @ + 1]

\* the reports after directorProcessOrForward, accepted counted once per call
reportDecision_perCall(s, r) ==
    IF r.forwarded > 0
    THEN [s EXCEPT !.forwarded_to[r.dest] = @ + r.forwarded,
                   !.forwarded = @ + r.forwarded]
    ELSE IF r.accepted > 0
         THEN [s EXCEPT !.accepted = @ + 1]
         ELSE s

\* the two reportStatCount sequences after directorProcessOrForward
reportDecision(s, r) ==
    IF r.forwarded > 0
    THEN [s EXCEPT !.forwarded_to[r.dest] = @ + r.forwarded,
                   !.forwarded = @ + r.forwarded]
    ELSE IF r.accepted > 0
         THEN [s EXCEPT !.accepted = @ + r.accepted]
         ELSE s

\* ------------------------------------------ the local-or-forward decision
\* The decision works on d: the handle c, the point heap pts, the log, the
\* ready set it reads, and its results accepted, forwarded, dest, flushErrs.
ApplyEntry(p) == [op |-> "apply", dp |-> p, node |-> LocalNode, Hops |-> 0]
FlushEntry == [op |-> "flush", dp |-> 0, node |-> LocalNode, Hops |-> 0]
SendEntry(p, n, h) == [op |-> "send", dp |-> p, node |-> n, Hops |-> h]

\* cachedDs.processIncoming: every buffered point is applied to the record
\* in buffer order, the buffer is cleared, the count applied is returned
processIncoming(d) ==
    [d EXCEPT !.c.incoming = << >>,
              !.c.PointCount = @ + Len(d.c.incoming),
              !.log = @ \o [k \in 1..Len(d.c.incoming) |-> ApplyEntry(d.c.incoming[k])],
              !.accepted = Len(d.c.incoming)]

\* dsFlusher.flushDs(ds, block): on a storage error nothing changes;
\* otherwise the accumulated points leave the handle and the count is reset,
\* and they are written before the call returns iff block, else later by
\* the flusher
flushDs(d, flushOk, block) ==
    IF ~flushOk
    THEN [d EXCEPT !.flushErrs = @ + 1]
    ELSE IF block
         THEN [d EXCEPT !.c.PointCount = 0, !.log = Append(@, FlushEntry)]
         ELSE [d EXCEPT !.c.PointCount = 0, !.queued = @ + 1]

\* the second argument of dsf.flushDs in directorProcessDataPoint
flushBlock == FALSE

directorProcessDataPoint(d, flushOk) ==
    LET d1 == processIncoming(d)
    IN  IF d1.c.PointCount > FlushThreshold
        THEN flushDs(d1, flushOk, flushBlock)
        ELSE d1

\* snd <- msg, with msg the encoding of dp as it is now
sendMsg(d, p, node) ==
    [d EXCEPT !.log = Append(@, SendEntry(p, node, d.pts[p].Hops)), !.err = FALSE]

\* directorForwardDPToNode without the test of dp.Hops
directorForwardDPToNode_anyHops(d, p, node) ==
    IF node \in d.ready
    THEN sendMsg([d EXCEPT !.pts[p].Hops = @ + 1], p, node)
    ELSE [d EXCEPT !.err = TRUE]

\* directorForwardDPToNode without dp.Hops++
directorForwardDPToNode_noIncrement(d, p, node) ==
    IF d.pts[p].Hops = 0
    THEN IF node \in d.ready
         THEN sendMsg(d, p, node)
         ELSE [d EXCEPT !.err = TRUE]
    ELSE [d EXCEPT !.err = FALSE]

\* directorForwardDPToNode without the test of node.Ready()
directorForwardDPToNode_anyNode(d, p, node) ==
    IF d.pts[p].Hops = 0
    THEN sendMsg([d EXCEPT !.pts[p].Hops = @ + 1], p, node)
    ELSE [d EXCEPT !.err = FALSE]

\* the result carries err: TRUE iff the call returned an error
directorForwardDPToNode(d, p, node) ==
    IF d.pts[p].Hops = 0
    THEN IF node \in d.ready
         THEN sendMsg([d EXCEPT !.pts[p].Hops = @ + 1], p, node)
         ELSE [d EXCEPT !.err = TRUE]
    ELSE [d EXCEPT !.err = FALSE]

\* the loop over cds.incoming, ranging from the last point to the first
RECURSIVE forwardIncoming_reversed(_, _, _)
forwardIncoming_reversed(d, dps, node) ==
    IF dps = << >> THEN d
    ELSE LET d0 == forwardIncoming_reversed(d, Tail(dps), node)
             d1 == directorForwardDPToNode(d0, Head(dps), node)
         IN  IF d1.err THEN d1 ELSE [d1 EXCEPT !.forwarded = @ + 1]

\* the loop over cds.incoming of directorProcessOrForward
RECURSIVE forwardIncoming(_, _, _)
forwardIncoming(d, dps, node) ==
    IF dps = << >> THEN d
    ELSE LET d1 == directorForwardDPToNode(d, Head(dps), node)
             d2 == IF d1.err THEN d1 ELSE [d1 EXCEPT !.forwarded = @ + 1]
         IN  forwardIncoming(d2, Tail(dps), node)

\* cachedDs.ClearRRAs(true)
ClearRRAs(d) == [d EXCEPT !.c.PointCount = 0]

\* the else branch of the loop over nodes: a node that is not the local one
forwardToNode(d, node) ==
    LET d1 == forwardIncoming([d EXCEPT !.dest = node], d.c.incoming, node)
    IN  ClearRRAs([d1 EXCEPT !.c.incoming = << >>])

RECURSIVE processOrForwardNodes(_, _, _)
processOrForwardNodes(d, nodes, flushOk) ==
    IF nodes = << >> THEN d
    ELSE LET d1 == IF Head(nodes) = LocalNode
                   THEN directorProcessDataPoint(d, flushOk)
                   ELSE forwardToNode(d, Head(nodes))
         IN  processOrForwardNodes(d1, Tail(nodes), flushOk)

directorProcessOrForward(c, flushOk) ==
    LET d == [c |-> c, pts |-> pts, log |-> log, ready |-> ready, err |-> FALSE,
              accepted |-> 0, forwarded |-> 0, dest |-> "", flushErrs |-> 0,
              queued |-> 0]
    IN  IF ~clstr
        THEN directorProcessDataPoint(d, flushOk)
        ELSE processOrForwardNodes(d, owners, flushOk)

\* ------------------------------------------------------------------- Init
Init ==
    /\ clstr \in BOOLEAN
    /\ \E v \in (IF clstr THEN Views ELSE {NoView}) : owners = v.o /\ ready = v.r
    /\ changes = 0
    /\ pts = << >>
    /\ dropsRcv = {}
    /\ rcvWorker = (IF clstr THEN "run" ELSE "stopped")
    /\ queue = << >>
    /\ loadQueue = << >>
    /\ closed = [dpCh |-> FALSE, dpOutCh |-> FALSE, loaderCh |-> FALSE,
                 loaderOutCh |-> FALSE]
    /\ signals = 0
    /\ unknowns = 0
    /\ dpOutCh = << >> /\ loaderCh = << >>
    /\ dirFifo = << >> /\ ldFifo = << >>
    /\ dirAt = "select" /\ ldAt = "recv"
    /\ submitted = 0
    /\ dirPC = "run"
    /\ ldPC = "recv"
    /\ ldCds = ""
    /\ dsc = [i \in Idents |-> EmptyCds]
    /\ db \in SUBSET Routable
    /\ dbCreates = [i \in Idents |-> 0]
    /\ fails = 0
    /\ flushing = 0
    /\ loadErrs = [i \in Idents |-> 0]
    /\ loaderSends = [i \in Idents |-> 0]
    /\ stats = ZeroStats
    /\ log = << >>

\* an unrecovered panic of the director goroutine ends the process
Alive == dirPC # "panic"

\* --------------------------------------------------------------- producers
\* a producer sends a fresh point (Hops 0) on dpCh; the relay takes it
Submit(i, v) ==
    /\ Alive /\ ~closed.dpCh
    /\ Len(pts) + Cardinality(dropsRcv) + unknowns < MaxPoints
    /\ pts' = Append(pts, [Ident |-> i, Value |-> v, Hops |-> 0, In |-> 0])
    /\ queue' = Append(queue, DpItem(Len(pts) + 1))
    /\ UNCHANGED <<cycleVars, clusterVars, producerVars, loaderVars, loadQueue, closed,
                   dirPC, dsc, fails, flushing, loaderSends, stats, log>>

\* a producer sends nil on dpCh
SubmitSignal ==
    /\ Alive /\ ~closed.dpCh
    /\ signals < MaxSignals
    /\ signals' = signals + 1
    /\ queue' = Append(queue, NilItem)
    /\ UNCHANGED <<cycleVars, clusterVars, loaderVars, pts, dropsRcv, rcvWorker, unknowns,
                   loadQueue, closed, dirPC, dsc, fails, flushing, loaderSends,
                   stats, log>>

\* a producer sends on dpCh a value that is neither an *incomingDP, a
\* *cachedDs nor nil (dpCh is a chan interface{})
SubmitUnknown ==
    /\ Alive /\ ~closed.dpCh
    /\ unknowns < MaxUnknown
    /\ Len(pts) + Cardinality(dropsRcv) + unknowns < MaxPoints
    /\ unknowns' = unknowns + 1
    /\ queue' = Append(queue, UnknownItem)
    /\ UNCHANGED <<cycleVars, clusterVars, loaderVars, pts, dropsRcv, rcvWorker, signals,
                   loadQueue, closed, dirPC, dsc, fails, flushing, loaderSends,
                   stats, log>>

\* the hop test of the rcv worker with the limit itself excluded
tooManyHops_atLimit(h) == h >= maxHops

\* if dp.Hops > maxHops
tooManyHops(h) == h > maxHops

\* one iteration of the rcv worker on a message m = [ok, Ident, Value, Hops]
\* (rcv belongs to the cluster and stays open)
directorincomingDPMessages(m) ==
    /\ Alive /\ rcvWorker = "run"
    /\ IF ~m.ok \/ tooManyHops(m.Hops)
       THEN /\ Len(pts) + Cardinality(dropsRcv) + unknowns < MaxPoints
            /\ dropsRcv' = dropsRcv \cup {m}
            /\ UNCHANGED <<pts, queue, rcvWorker>>
       ELSE IF closed.dpCh
            THEN /\ rcvWorker' = "stopped"
                 /\ UNCHANGED <<pts, queue, dropsRcv>>
            ELSE /\ Len(pts) + Cardinality(dropsRcv) + unknowns < MaxPoints
                 /\ pts' = Append(pts, [Ident |-> m.Ident, Value |-> m.Value,
                                        Hops |-> m.Hops, In |-> m.Hops])
                 /\ queue' = Append(queue, DpItem(Len(pts) + 1))
                 /\ UNCHANGED <<dropsRcv, rcvWorker>>
    /\ UNCHANGED <<cycleVars, clusterVars, loaderVars, loadQueue, closed, signals, unknowns,
                   dirPC,
                   dsc, fails, flushing, loaderSends, stats, log>>

\* the messages rcv can deliver
Msgs == {[ok |-> TRUE, Ident |-> "a", Value |-> Num, Hops |-> h] : h \in maxHops..(maxHops + 1)}
            \cup {[ok |-> FALSE, Ident |-> "", Value |-> Num, Hops |-> 0]}

\* ------------------------------------------------------------- elasticCh
\* relay dpCh -> dpOutCh: input closed and everything delivered
elasticChClose ==
    /\ Alive
    /\ closed.dpCh /\ queue = << >> /\ ~closed.dpOutCh
    /\ closed' = [closed EXCEPT !.dpOutCh = TRUE]
    /\ UNCHANGED <<cycleVars, clusterVars, producerVars, loaderVars, pts, queue, loadQueue,
                   dirPC, dsc, fails, flushing, loaderSends, stats, log>>

\* relay loaderCh -> loaderOutCh: input closed and everything delivered
elasticChLoaderClose ==
    /\ Alive
    /\ closed.loaderCh /\ loadQueue = << >> /\ ~closed.loaderOutCh
    /\ closed' = [closed EXCEPT !.loaderOutCh = TRUE]
    /\ UNCHANGED <<cycleVars, clusterVars, producerVars, loaderVars, pts, queue, loadQueue,
                   dirPC, dsc, fails, flushing, loaderSends, stats, log>>

\* ------------------------------------------------------------------ loader
\* the loader without the test of cds.spec
needsLoad_always(c) == TRUE

\* cds.spec != nil: nil spec means it's been loaded already
needsLoad(c) == c.spec

\* if cds.Created() { reportStatCount("receiver.created", 1) }
reportCreated(s, c) == IF c.created THEN [s EXCEPT !.created = @ + 1] ELSE s

\* x, ok := <-loaderOutCh with ok: a handle that needs no load goes straight
\* to the Created() check and dpCh; otherwise fetchOrCreateByIdent starts
LoaderRecv ==
    /\ Alive /\ ldPC = "recv"
    /\ loadQueue # << >>
    /\ loadQueue' = Tail(loadQueue)
    /\ LET i == Head(loadQueue).ident
       IN  IF needsLoad(dsc[i])
           THEN /\ ldPC' = "fetch"
                /\ ldCds' = i
                /\ UNCHANGED <<stats, queue>>
           ELSE /\ stats' = reportCreated(stats, dsc[i])
                /\ queue' = Append(queue, CdsItem(i))
                /\ UNCHANGED <<ldPC, ldCds>>
    /\ UNCHANGED <<cycleVars, clusterVars, producerVars, pts, closed, dirPC, dsc, db,
                   dbCreates, fails, flushing, loadErrs, loaderSends, log>>

\* the loader returning after a storage error
afterLoadError_return == "exited"

\* log.Printf("loader: database error: %v", err); continue
afterLoadError == "recv"

\* fetchOrCreateByIdent returns: on an error the loader continues with the
\* next handle; otherwise the handle is written, reported and sent on dpCh
LoaderFetch(ok) ==
    /\ Alive /\ ldPC = "fetch"
    /\ ldPC' = (IF ok THEN "recv" ELSE afterLoadError)
    /\ ldCds' = ""
    /\ IF ok
       THEN LET c == fetchOrCreateByIdent(dsc[ldCds], ldCds, ldCds \in db)
            IN  /\ dsc' = [dsc EXCEPT ![ldCds] = c]
                /\ db' = db \cup {ldCds}
                /\ dbCreates' = IF ldCds \in db THEN dbCreates
                                ELSE [dbCreates EXCEPT ![ldCds] = @ + 1]
                /\ stats' = reportCreated(stats, c)
                /\ queue' = Append(queue, CdsItem(ldCds))
                /\ UNCHANGED <<fails, loadErrs>>
       ELSE /\ fails < MaxFail
            /\ fails' = fails + 1
            /\ loadErrs' = [loadErrs EXCEPT ![ldCds] = @ + 1]
            /\ UNCHANGED <<dsc, db, dbCreates, stats, queue>>
    /\ UNCHANGED <<cycleVars, clusterVars, producerVars, pts, loadQueue, closed, dirPC,
                   flushing, loaderSends, log>>

\* x, ok := <-loaderOutCh with !ok: close(dpCh) and return
LoaderExit ==
    /\ Alive /\ ldPC = "recv"
    /\ loadQueue = << >> /\ closed.loaderOutCh
    /\ ldPC' = "exited"
    /\ closed' = [closed EXCEPT !.dpCh = TRUE]
    /\ UNCHANGED <<cycleVars, clusterVars, producerVars, pts, queue, loadQueue, dirPC,
                   ldCds, dsc, db, dbCreates, fails, flushing, loadErrs, loaderSends,
                   stats, log>>

\* ---------------------------------------------------------------- director
\* case _, ok = <-clusterChgCh: Transition is called and the loop continues.
\* On an error, which is only logged, the previous view stays; otherwise the
\* cluster's view of owners and readiness is whatever it is afterwards
DirectorClusterChange(o, r, err) ==
    /\ Alive /\ dirPC = "run" /\ clstr
    /\ changes < MaxChanges
    /\ changes' = changes + 1
    /\ IF err
       THEN UNCHANGED <<owners, ready>>
       ELSE owners' = o /\ ready' = r
    /\ UNCHANGED <<cycleVars, clstr, producerVars, loaderVars, pts, queue, loadQueue,
                   closed, dirPC, dsc, fails, flushing, loaderSends, stats, log>>

\* the decision on handle i and the statistics reported after it
Decide(cache, i, s, flushOk) ==
    LET r == directorProcessOrForward(cache[i], flushOk)
    IN  /\ flushOk \/ r.flushErrs > 0
        /\ fails + r.flushErrs <= MaxFail
        /\ fails' = fails + r.flushErrs
        /\ flushing' = flushing + r.queued
        /\ dsc' = [cache EXCEPT ![i] = r.c]
        /\ pts' = r.pts
        /\ log' = r.log
        /\ stats' = reportDecision(s, r)

\* the test for a load that holds for the first buffered point only
notLoaded_firstPoint(c) == c.Id = 0 /\ Len(c.incoming) = 1

\* if cds.Id() == 0: this DS needs to be loaded
notLoaded(c) == c.Id = 0

\* math.IsNaN that never holds
IsNaN_never(v) == FALSE

\* math.IsNaN(dp.Value)
IsNaN(v) == v = NaN

\* cds == nil that never holds
isNil_never(cache, i) == FALSE

\* cds == nil, for the result of getByIdentOrCreateEmpty
isNil(cache, i) == ~cache[i].present

directorProcessIncomingDP(p, flushOk) ==
    LET s1 == reportTotal(stats)
        i == pts[p].Ident
        cache == getByIdentOrCreateEmpty(dsc, i)
        cache2 == [cache EXCEPT ![i] = appendIncoming(@, p)]
    IN  IF IsNaN(pts[p].Value)
        THEN /\ stats' = s1
             /\ flushOk
             /\ UNCHANGED <<dsc, pts, log, fails, flushing, loadQueue, loaderSends,
                          dirPC>>
        ELSE IF isNil(cache, i)
        THEN /\ stats' = reportDropped(s1)
             /\ flushOk
             /\ UNCHANGED <<dsc, pts, log, fails, flushing, loadQueue, loaderSends,
                          dirPC>>
        ELSE IF notLoaded(cache2[i])
        THEN /\ stats' = s1
             /\ flushOk
             /\ dsc' = cache2
             /\ IF closed.loaderCh
                THEN /\ dirPC' = "panic"
                     /\ UNCHANGED <<loadQueue, loaderSends>>
                ELSE /\ loadQueue' = Append(loadQueue, CdsItem(i))
                     /\ loaderSends' = [loaderSends EXCEPT ![i] = @ + 1]
                     /\ UNCHANGED dirPC
             /\ UNCHANGED <<pts, log, fails, flushing>>
        ELSE /\ Decide(cache2, i, s1, flushOk)
             /\ UNCHANGED <<loadQueue, loaderSends, dirPC>>

\* case x, ok = <-dpOutCh with x an *incomingDP
DirectorDP(flushOk) ==
    /\ Alive /\ dirPC = "run"
    /\ queue # << >> /\ Head(queue).t = "dp"
    /\ queue' = Tail(queue)
    /\ directorProcessIncomingDP(Head(queue).dp, flushOk)
    /\ UNCHANGED <<cycleVars, clusterVars, producerVars, loaderVars, closed>>

\* case x, ok = <-dpOutCh with x a *cachedDs
DirectorCds(flushOk) ==
    /\ Alive /\ dirPC = "run"
    /\ queue # << >> /\ Head(queue).t = "cds"
    /\ queue' = Tail(queue)
    /\ Decide(dsc, Head(queue).ident, stats, flushOk)
    /\ UNCHANGED <<cycleVars, clusterVars, producerVars, loaderVars, loadQueue, closed,
                   dirPC, loaderSends>>

\* case x, ok = <-dpOutCh with x nil and ok: close(loaderCh)
DirectorSignal ==
    /\ Alive /\ dirPC = "run"
    /\ queue # << >> /\ Head(queue).t = "nil"
    /\ queue' = Tail(queue)
    /\ IF closed.loaderCh
       THEN /\ dirPC' = "panic"
            /\ UNCHANGED closed
       ELSE /\ closed' = [closed EXCEPT !.loaderCh = TRUE]
            /\ UNCHANGED dirPC
    /\ UNCHANGED <<cycleVars, clusterVars, producerVars, loaderVars, pts, loadQueue, dsc,
                   fails, flushing, loaderSends, stats, log>>

\* case x, ok = <-dpOutCh with x of any other type: the default case logs
\* and leaves dp and cds nil, so the final else branch runs: close(loaderCh)
DirectorUnknown ==
    /\ Alive /\ dirPC = "run"
    /\ queue # << >> /\ Head(queue).t = "unknown"
    /\ queue' = Tail(queue)
    /\ IF closed.loaderCh
       THEN /\ dirPC' = "panic"
            /\ UNCHANGED closed
       ELSE /\ closed' = [closed EXCEPT !.loaderCh = TRUE]
            /\ UNCHANGED dirPC
    /\ UNCHANGED <<cycleVars, clusterVars, producerVars, loaderVars, pts, loadQueue, dsc,
                   fails, flushing, loaderSends, stats, log>>

\* case x, ok = <-dpOutCh with !ok: the director returns
DirectorExit ==
    /\ Alive /\ dirPC = "run"
    /\ queue = << >> /\ closed.dpOutCh
    /\ dirPC' = "returned"
    /\ UNCHANGED <<cycleVars, clusterVars, producerVars, loaderVars, pts, queue, loadQueue,
                   closed, dsc, fails, flushing, loaderSends, stats, log>>

\* ----------------------------------------------------------------- flusher
\* the flusher writes a request it was handed by a non-blocking flushDs
FlusherWrite ==
    /\ Alive
    /\ flushing > 0
    /\ flushing' = flushing - 1
    /\ log' = Append(log, FlushEntry)
    /\ UNCHANGED <<cycleVars, clusterVars, producerVars, loaderVars, pts, queue, loadQueue,
                   closed, dirPC, dsc, fails, loaderSends, stats>>

\* -------------------------------------------------------------------- Next
Next ==
    \/ \E k \in Kinds : Submit(k[1], k[2])
    \/ SubmitSignal
    \/ SubmitUnknown
    \/ \E m \in Msgs : directorincomingDPMessages(m)
    \/ elasticChClose
    \/ elasticChLoaderClose
    \/ LoaderRecv
    \/ \E ok \in BOOLEAN : LoaderFetch(ok)
    \/ LoaderExit
    \/ \E v \in Views : DirectorClusterChange(v.o, v.r, FALSE)
    \/ DirectorClusterChange(owners, ready, TRUE)
    \/ \E flushOk \in BOOLEAN : DirectorDP(flushOk)
    \/ \E flushOk \in BOOLEAN : DirectorCds(flushOk)
    \/ DirectorSignal
    \/ DirectorUnknown
    \/ DirectorExit
    \/ FlusherWrite

Spec == Init /\ [][Next]_vars

\* ============================================== the director-loader cycle
\* CycleSpec keeps apart the channel buffers and the relays' fifoQueues that
\* Spec merges into queue and loadQueue, for a stream of points whose handle
\* needs loading, so that a blocked send is a state.  Items are "dp" (a
\* point) and "cds" (a handle).

\* a relay that takes from its input only while its queue has room
relayAccepts_bounded(q) == Len(q) < ChanCap

\* elasticCh: the relay always takes what arrives on its input, into its
\* fifoQueue if the output cannot take it at once
relayAccepts(q) == TRUE

\* a producer sends a point on dpCh, the relay takes it
CycleSubmit ==
    /\ submitted < MaxCycle
    /\ relayAccepts(dirFifo)
    /\ submitted' = submitted + 1
    /\ dirFifo' = Append(dirFifo, "dp")
    /\ UNCHANGED <<mainVars, dpOutCh, loaderCh, ldFifo, dirAt, ldAt>>

\* elasticCh(dpCh, dpOutCh, queue) writes the oldest item to dpOutCh
CycleRelayOut ==
    /\ dirFifo # << >> /\ Len(dpOutCh) < ChanCap
    /\ dpOutCh' = Append(dpOutCh, Head(dirFifo))
    /\ dirFifo' = Tail(dirFifo)
    /\ UNCHANGED <<mainVars, loaderCh, ldFifo, dirAt, ldAt, submitted>>

\* the director takes x from dpOutCh: a point whose handle has Id() == 0
\* leads to loaderCh <- cds, a handle is decided on
CycleDirectorTake ==
    /\ dirAt = "select" /\ dpOutCh # << >>
    /\ dpOutCh' = Tail(dpOutCh)
    /\ dirAt' = (IF Head(dpOutCh) = "dp" THEN "send" ELSE "select")
    /\ UNCHANGED <<mainVars, loaderCh, dirFifo, ldFifo, ldAt, submitted>>

\* loaderCh <- cds completes when the buffer of loaderCh has room
CycleDirectorSend ==
    /\ dirAt = "send" /\ Len(loaderCh) < ChanCap
    /\ loaderCh' = Append(loaderCh, "cds")
    /\ dirAt' = "select"
    /\ UNCHANGED <<mainVars, dpOutCh, dirFifo, ldFifo, ldAt, submitted>>

\* elasticCh(loaderCh, loaderOutCh, queue) takes a handle from loaderCh
CycleLoaderRelayIn ==
    /\ loaderCh # << >> /\ relayAccepts(ldFifo)
    /\ ldFifo' = Append(ldFifo, Head(loaderCh))
    /\ loaderCh' = Tail(loaderCh)
    /\ UNCHANGED <<mainVars, dpOutCh, dirFifo, dirAt, ldAt, submitted>>

\* x, ok := <-loaderOutCh (unbuffered: the relay hands over its oldest
\* handle), then fetchOrCreateByIdent: on an error the loader continues
CycleLoaderRecv(ok) ==
    /\ ldAt = "recv" /\ ldFifo # << >>
    /\ ldFifo' = Tail(ldFifo)
    /\ ldAt' = (IF ok THEN "send" ELSE "recv")
    /\ UNCHANGED <<mainVars, dpOutCh, loaderCh, dirFifo, dirAt, submitted>>

\* dpCh <- cds: the relay of dpCh takes the handle
CycleLoaderSend ==
    /\ ldAt = "send" /\ relayAccepts(dirFifo)
    /\ dirFifo' = Append(dirFifo, "cds")
    /\ ldAt' = "recv"
    /\ UNCHANGED <<mainVars, dpOutCh, loaderCh, ldFifo, dirAt, submitted>>

CycleInit == Init /\ ~clstr /\ db = {}

CycleNext ==
    \/ CycleSubmit
    \/ CycleRelayOut
    \/ CycleDirectorTake
    \/ CycleDirectorSend
    \/ CycleLoaderRelayIn
    \/ \E ok \in BOOLEAN : CycleLoaderRecv(ok)
    \/ CycleLoaderSend

CycleSpec == CycleInit /\ [][CycleNext]_vars

\* ================================================================ claims
\* what has been put on snd, and what has been applied to local records
Snd == SelectSeq(log, LAMBDA e : e.op = "send")
Applied == SelectSeq(log, LAMBDA e : e.op = "apply")
Outcomes == SelectSeq(log, LAMBDA e : e.op \in {"apply", "send"})

\* the points of ident i whose value is a number, in order of entry
NumPoints(i) == {p \in DOMAIN pts : pts[p].Ident = i /\ pts[p].Value = Num}
EntryOrder(i) == SelectSeq([p \in DOMAIN pts |-> p], LAMBDA p : p \in NumPoints(i))
DpsOf(entries) == [k \in DOMAIN entries |-> entries[k].dp]

\* nothing is in a relay, the loader waits for a handle, nothing has panicked
Idle == /\ Alive
        /\ queue = << >> /\ loadQueue = << >>
        /\ ldPC # "fetch"

\* the director loop takes an item from dpOutCh in this step
DirectorTakes == dirPC = "run" /\ queue # << >> /\ queue' = Tail(queue)

\* the step is a local-or-forward decision on handle i: a handle back from
\* the loader, or a point with a number for a handle that is already loaded
DecisionStep(i) ==
    /\ DirectorTakes
    /\ \/ Head(queue).t = "cds" /\ Head(queue).ident = i
       \/ /\ Head(queue).t = "dp"
          /\ pts[Head(queue).dp].Ident = i
          /\ pts[Head(queue).dp].Value = Num
          /\ dsc[i].present /\ dsc[i].Id # 0

\* C1: a record is created at most once per identifier, and whenever the
\* loader has a fetchOrCreateByIdent call in flight it is for a handle that
\* still needs it (its spec is not nil); the one loader loop has at most one
\* such call in flight.
C1_CreateAtMostOnce ==
    /\ \A i \in Idents : dbCreates[i] <= 1
    /\ ldPC = "fetch" => dsc[ldCds].present /\ dsc[ldCds].spec
    /\ Cardinality({i \in Idents : ldPC = "fetch" /\ ldCds = i}) <= 1

\* C1 witness: the same placeholder was sent to the loader twice, it was
\* loaded, and its record was created exactly once
C1_Witness ==
    /\ loaderSends["a"] >= 2
    /\ dbCreates["a"] = 1
    /\ dsc["a"].Id # 0
    /\ Idle

\* C2 (as claimed): once the record of a new identifier has been created,
\* exactly one created event has been reported, however often the handle
\* passes through the loader.
C2_OneCreatedEvent ==
    \A i \in Routable : dbCreates[i] = 1 /\ dsc[i].Id # 0 => stats.created = 1

\* C3: every message put on snd carries Hops <= maxHops; it is for a point
\* whose Hops was 0 before the send; and no point is put on snd twice.
C3_HopLimit ==
    /\ \A k \in DOMAIN Snd : Snd[k].Hops <= maxHops /\ Snd[k].Hops = 1
    /\ \A k \in DOMAIN Snd : pts[Snd[k].dp].In = 0
    /\ \A j, k \in DOMAIN Snd : Snd[j].dp = Snd[k].dp => j = k

\* C3 witness: a decision over several remote ready nodes has sent a point,
\* and a point that entered with Hops >= 1 has been through a decision too
C3_Witness ==
    /\ stats.forwarded_to["R2"] > 0
    /\ Snd # << >>
    /\ \E p \in DOMAIN pts : pts[p].In >= 1 /\ Idle

\* C4: points of one identifier are applied or sent in the order in which
\* they entered dpCh.
C4_ArrivalOrder ==
    \A j, k \in DOMAIN Outcomes :
        j < k /\ pts[Outcomes[j].dp].Ident = pts[Outcomes[k].dp].Ident
            => Outcomes[j].dp <= Outcomes[k].dp

\* C4 witness: two points were buffered in the handle while the loader held
\* it, and both have been applied or sent
C4_Witness ==
    /\ loaderSends["a"] >= 2
    /\ \E j, k \in DOMAIN Outcomes : Outcomes[j].dp # Outcomes[k].dp
    /\ Idle

\* C5: when the director takes a point with a number whose identifier no
\* specification matches, dropped goes up by exactly 1, accepted and
\* forwarded stay, nothing goes to the loader, nothing is applied or sent.
C5_Unroutable ==
    [][(/\ DirectorTakes
        /\ Head(queue).t = "dp"
        /\ pts[Head(queue).dp].Value = Num
        /\ pts[Head(queue).dp].Ident \in NoSpec)
       => /\ stats'.dropped = stats.dropped + 1
          /\ stats'.accepted = stats.accepted
          /\ stats'.forwarded = stats.forwarded
          /\ stats'.forwarded_to = stats.forwarded_to
          /\ loadQueue' = loadQueue
          /\ loaderSends' = loaderSends
          /\ log' = log
          /\ dsc' = dsc]_vars

\* C5 witness: a point for an unmatched identifier was taken and dropped
C5_Witness ==
    /\ stats.dropped >= 1
    /\ \E p \in DOMAIN pts : pts[p].Ident \in NoSpec /\ pts[p].Value = Num
    /\ queue = << >>

\* C6: when the director takes a point whose value is not a number, only the
\* total counter changes: the cache and every pending buffer stay, nothing
\* goes to the loader, nothing is applied, flushed or sent.
C6_NaNIgnored ==
    [][(/\ DirectorTakes
        /\ Head(queue).t = "dp"
        /\ pts[Head(queue).dp].Value = NaN)
       => /\ stats' = [stats EXCEPT !.total = @ + 1]
          /\ dsc' = dsc
          /\ loadQueue' = loadQueue
          /\ loaderSends' = loaderSends
          /\ log' = log
          /\ pts' = pts
          /\ db' = db]_vars

\* C6 witness: a not-a-number point was taken by the director
C6_Witness ==
    /\ \E p \in DOMAIN pts : pts[p].Value = NaN
    /\ queue = << >>
    /\ stats.total >= 1

\* C7: without a clusterer, when only points with a number for the one
\* identifier were submitted and fetchOrCreateByIdent never failed, then at
\* rest every point has been applied exactly once, in order, and accepted
\* is the number of points.
C7_LocalAllApplied ==
    (/\ ~clstr
     /\ Idle
     /\ loadErrs["a"] = 0
     /\ \A p \in DOMAIN pts : pts[p].Ident = "a" /\ pts[p].Value = Num)
    => /\ DpsOf(Applied) = [p \in DOMAIN pts |-> p]
       /\ stats.accepted = Len(pts)

\* C7 witness: two points, the handle went to the loader twice, both applied
C7_Witness ==
    /\ ~clstr /\ Idle
    /\ Len(pts) = 2
    /\ \A p \in DOMAIN pts : pts[p].Ident = "a" /\ pts[p].Value = Num
    /\ loaderSends["a"] = 2
    /\ stats.accepted = 2

\* the view has always been: the only owner is R1, with this readiness
OnlyRemoteOwner(isReady) ==
    /\ clstr /\ changes = 0
    /\ owners = <<"R1">>
    /\ ("R1" \in ready) = isReady

\* C8: the only owner is the remote ready node R1 and every point entered
\* with Hops 0.  Every decision leaves the pending buffer empty and the
\* in-memory aggregation state cleared; and at rest, fetchOrCreateByIdent not
\* having failed, every point with a number has been sent, in order, with
\* Hops exactly 1, forwarded is their number and accepted is 0.
C8_RemoteReady ==
    /\ [](OnlyRemoteOwner(TRUE) /\ (\A p \in DOMAIN pts : pts[p].In = 0)
            => /\ \A k \in DOMAIN Snd : Snd[k].Hops = 1 /\ Snd[k].node = "R1"
               /\ stats.accepted = 0
               /\ stats.forwarded = Len(Snd)
               /\ Idle /\ loadErrs["a"] = 0
                    => /\ DpsOf(Snd) = EntryOrder("a")
                       /\ stats.forwarded = Cardinality(NumPoints("a")))
    /\ [][OnlyRemoteOwner(TRUE) /\ DecisionStep("a")
            => dsc'["a"].incoming = << >> /\ dsc'["a"].PointCount = 0]_vars

\* C8 witness: two points were forwarded to R1 after the handle was loaded
C8_Witness ==
    /\ OnlyRemoteOwner(TRUE) /\ Idle
    /\ Cardinality(NumPoints("a")) = 2
    /\ \A p \in DOMAIN pts : pts[p].In = 0
    /\ stats.forwarded = 2
    /\ dsc["a"].incoming = << >>

\* C9: the only owner is the remote node R1, which is not ready, and every
\* point entered with Hops 0.  Nothing is ever sent, every point keeps
\* Hops 0, accepted and forwarded stay 0, and every decision empties the
\* pending buffer, so that no point is tried again.
C9_RemoteNotReady ==
    /\ [](OnlyRemoteOwner(FALSE) /\ (\A p \in DOMAIN pts : pts[p].In = 0)
            => /\ Snd = << >>
               /\ \A p \in DOMAIN pts : pts[p].Hops = 0
               /\ stats.accepted = 0
               /\ stats.forwarded = 0
               /\ stats.forwarded_to = [n \in Remote |-> 0])
    /\ [][OnlyRemoteOwner(FALSE) /\ DecisionStep("a")
            => dsc'["a"].incoming = << >>]_vars

\* C9 witness: two points went through a decision and were dropped
C9_Witness ==
    /\ OnlyRemoteOwner(FALSE) /\ Idle
    /\ Cardinality(NumPoints("a")) = 2
    /\ \A p \in DOMAIN pts : pts[p].In = 0
    /\ dsc["a"].Id # 0
    /\ dsc["a"].incoming = << >>

\* C10 (as claimed): every point is accounted for; when the pipeline has
\* come to rest, with the director waiting for input, no point is left in a
\* handle's pending buffer.
C10_NothingLeftPending ==
    Idle /\ dirPC = "run" => \A i \in Idents : dsc[i].incoming = << >>

\* C11 (as claimed): the flush requested when the point count exceeds the
\* threshold is a blocking one, so that whenever the director takes the next
\* item from the processing queue no flush it requested is still outstanding.
C11_BlockingFlush ==
    [][DirectorTakes => flushing = 0]_vars

\* C12 (as claimed): shutdown terminates and loses nothing.  In the form a
\* finite run can refute: once the loader's input has been closed the
\* director is still able to return (it has not died), and it has returned
\* only with the processing queue closed and empty, after the loader has
\* delivered what it held and exited.
C12_ShutdownTerminates ==
    /\ closed.loaderCh => dirPC # "panic"
    /\ dirPC = "returned"
          => /\ closed.dpOutCh /\ queue = << >>
             /\ ldPC = "exited" /\ loadQueue = << >>

\* C18 (as claimed): once the director has closed loaderCh it never sends on
\* it and never closes it again; a send on or a close of the closed channel
\* is a panic of the director, so the director never panics.
C18_NoUseOfClosedPath ==
    dirPC # "panic"

\* C16 (as claimed): every decision adds to the forwarded counter exactly
\* the number of messages it put on snd, so the counter always equals the
\* number of messages sent; a point that is not sent is not counted.
C16_ForwardedCountsSends ==
    stats.forwarded = Len(Snd)

\* C19 (as claimed): an item of an unrecognized type taken from the open
\* processing queue is logged and has no other effect: the step that takes
\* it closes no channel, does not end the director and touches no handle,
\* statistic or loader input.
C19_UnknownIgnored ==
    [][DirectorTakes /\ Head(queue).t = "unknown"
          => UNCHANGED <<closed, dirPC, dsc, stats, loadQueue>>]_vars

\* handle i has been sent on loaderCh and the loader has not finished with
\* it: it waits in the relay or the loader is inside fetchOrCreateByIdent
AtLoader(i) ==
    \/ \E k \in DOMAIN loadQueue : loadQueue[k].ident = i
    \/ ldPC = "fetch" /\ ldCds = i

\* C20 (as claimed): while a handle is at the loader the director does not
\* touch its mutable state: no step in which the director takes an item
\* appends to the pending buffer of such a handle.
C20_HandleExclusive ==
    [][\A i \in Idents :
          DirectorTakes /\ AtLoader(i)
              => dsc'[i].incoming = dsc[i].incoming]_vars

\* the points that came in as forwarded messages
Delivered == {p \in DOMAIN pts : pts[p].In > 0}

\* C14: the rcv worker drops exactly the messages that fail to decode or
\* whose hop count exceeds 2 and passes the others on to dpCh: a dropped
\* message is one of the former, a delivered point has a hop count of at
\* most 2, a message that decodes with hop count <= 2 is delivered whenever
\* dpCh is open, a drop leaves the worker running with the queue untouched
\* (no retry), and the worker (started only with clustering on) stops only
\* once dpCh has been closed.
C14_RcvWorker ==
    /\ [](/\ \A m \in dropsRcv : ~m.ok \/ m.Hops > 2
          /\ \A p \in Delivered : pts[p].In <= 2
          /\ clstr /\ rcvWorker = "stopped" => closed.dpCh)
    /\ [][dropsRcv' # dropsRcv
            => rcvWorker' = "run" /\ UNCHANGED <<pts, queue>>]_vars
    /\ [](\A m \in Msgs :
            m.ok /\ m.Hops <= 2 /\ ~closed.dpCh /\ rcvWorker = "run"
            /\ Alive /\ Len(pts) + Cardinality(dropsRcv) + unknowns < MaxPoints
               => ENABLED (/\ directorincomingDPMessages(m)
                           /\ Len(pts') = Len(pts) + 1
                           /\ queue' = Append(queue, DpItem(Len(pts')))))

\* C14 witness: the worker dropped a message, went on and delivered a
\* message with hop count 2
C14_Witness ==
    /\ dropsRcv # {}
    /\ \E p \in Delivered : pts[p].In = 2
    /\ rcvWorker = "run"

\* the director takes a point that is not a number or matches no spec
BadPointStep ==
    /\ DirectorTakes /\ Head(queue).t = "dp"
    /\ LET p == pts[Head(queue).dp]
       IN  IsNaN(p.Value) \/ p.Ident \in NoSpec

\* a decision in which some owner is a remote node that is not ready
FailedForwardStep ==
    /\ clstr
    /\ \E k \in DOMAIN owners : owners[k] \in Remote \ ready
    /\ \E i \in Idents : DecisionStep(i)

\* a step in which something failed: a cluster change (with or without an
\* error), a storage error in the loader or in a flush, a forward to a node
\* that is not ready, a point that is not a number or is unroutable
FailureStep ==
    \/ changes' # changes
    \/ loadErrs' # loadErrs
    \/ fails' # fails
    \/ FailedForwardStep
    \/ BadPointStep

\* the director is in its loop, and the loader can go on with the handle it
\* has or with the next one
CanGoOn ==
    /\ dirPC = "run"
    /\ ldPC = "recv" /\ loadQueue # << >> => ENABLED LoaderRecv
    /\ ldPC = "fetch" => ENABLED LoaderFetch(TRUE)

\* C15: no failure halts ingestion.  A cluster change (failed or not), a
\* storage error in the loader, a decision (whatever its forwards and its
\* flush did) and a point that is not a number or is unroutable each leave
\* the director in its loop and the loader in its own; the loader is ready
\* for the next handle right after a storage error; after each such step
\* the director is at its select and the loader can take the next handle;
\* and the director returns only with its processing queue closed.
C15_NoFailureHalts ==
    /\ [][changes' # changes
            => /\ dirPC' = "run" /\ ldPC' = ldPC
               /\ UNCHANGED <<queue, loadQueue, closed>>]_vars
    /\ [][loadErrs' # loadErrs
            => /\ ldPC' = "recv" /\ dirPC' = dirPC
               /\ UNCHANGED <<queue, loadQueue, closed>>]_vars
    /\ [][(BadPointStep \/ \E i \in Idents : DecisionStep(i))
            => dirPC' = "run" /\ ldPC' = ldPC /\ UNCHANGED closed]_vars
    /\ [][FailureStep => CanGoOn']_vars
    /\ [](dirPC = "returned" => closed.dpOutCh /\ queue = << >>)

\* C15 witness: after a failed load and a cluster change the next point was
\* taken and applied, and both loops are still running
C15_Witness ==
    /\ loadErrs["a"] = 1 /\ changes = 1
    /\ Len(Applied) = 2
    /\ dirPC = "run" /\ ldPC = "recv"

\* the director takes a point with a number for identifier i
PointStep(i) ==
    /\ DirectorTakes /\ Head(queue).t = "dp"
    /\ pts[Head(queue).dp].Ident = i
    /\ pts[Head(queue).dp].Value = Num

\* C17: when fetchOrCreateByIdent fails in the loader, nothing is sent to
\* the director, no statistic is reported and the handle is left as it was:
\* its buffered points stay and it still needs the load.  While loaderCh is
\* open, the next point for an identifier whose load has failed goes to
\* the end of the buffer and the handle is sent to the loader again.  And
\* without a clusterer, once the handle is loaded and the pipeline is at
\* rest, all the points of the identifier, those buffered before the failure
\* and those after, have been applied in arrival order.
C17_LoadRetried ==
    /\ [][loadErrs' # loadErrs
            => /\ UNCHANGED <<queue, stats, dsc>>
               /\ dsc[ldCds].spec /\ dsc[ldCds].Id = 0
               /\ dsc[ldCds].incoming # << >>]_vars
    /\ [][\A i \in Routable :
            PointStep(i) /\ loadErrs[i] >= 1 /\ dsc[i].Id = 0
            /\ ~closed.loaderCh
               => /\ dsc'[i].incoming = Append(dsc[i].incoming, Head(queue).dp)
                  /\ loadQueue' = Append(loadQueue, CdsItem(i))
                  /\ loaderSends'[i] = loaderSends[i] + 1]_vars
    /\ [](\A i \in Routable :
            ~clstr /\ Idle /\ loadErrs[i] >= 1 /\ dsc[i].Id # 0
               => /\ DpsOf(Applied) = EntryOrder(i)
                  /\ dsc[i].incoming = << >>)

\* C17 witness: the load for the first point failed, the second point sent
\* the handle again, the load succeeded and both points were applied
C17_Witness ==
    /\ ~clstr /\ Idle
    /\ loadErrs["a"] = 1 /\ loaderSends["a"] = 2
    /\ dsc["a"].Id # 0
    /\ DpsOf(Applied) = <<1, 2>>

\* the director cannot complete loaderCh <- cds now
DirBlocked == dirAt = "send" /\ ~ENABLED CycleDirectorSend

\* the loader cannot complete dpCh <- cds now
LdBlocked == ldAt = "send" /\ ~ENABLED CycleLoaderSend

\* C13: the director-loader cycle never deadlocks.  The loader's send of a
\* handle on dpCh can always complete at once, whatever the director is
\* doing; the director's send on loaderCh can complete at once or as soon as
\* the relay alone has taken a handle out of loaderCh, whatever the loader
\* is doing; so the two are never blocked on each other.
C13_NoCycleDeadlock ==
    /\ ldAt = "send" => ENABLED CycleLoaderSend
    /\ dirAt = "send" => ENABLED CycleDirectorSend \/ ENABLED CycleLoaderRelayIn
    /\ ~(DirBlocked /\ LdBlocked)

\* C13 witness: the director waits to send on the full loaderCh while the
\* loader holds a handle to send back and more handles wait in both relays
C13_Witness ==
    /\ DirBlocked
    /\ ldAt = "send"
    /\ ldFifo # << >> /\ dirFifo # << >>
    /\ Len(dpOutCh) = ChanCap

====
